---- MODULE Spec2Model ----
(***************************************************************************)
(* Model of example/client/api/api.go: an HTTP resource server with three  *)
(* routes.  /public answers without authorization; /protected and          *)
(* /protected/{claim}/{value} extract a bearer token from the              *)
(* authorization header (checkToken), ask the introspection authority      *)
(* about it (rs.Introspect) and answer from the result.                    *)
(*                                                                         *)
(* Every request is handled by its own goroutine.  A handler runs in one   *)
(* piece up to the introspection call, which is its only suspension point, *)
(* and in one piece after the call returned.  Strings are TLA+ strings;    *)
(* Len, SubSeq and \o act on them character by character.                  *)
(***************************************************************************)
EXTENDS Integers, Sequences, FiniteSets, TLC

VARIABLES
    provider,   \* the resource server built at startup (api.go:31), shared
    pc,         \* pc[r]: "idle" (not yet received), "introspecting", "done"
    request,    \* request[r]: the inbound request: route, headers, URL params
    token,      \* token[r]: the token checkToken returned to the handler
    cancelled,  \* cancelled[r]: r.Context() is cancelled
    result,     \* result[r]: (resp, err) as rs.Introspect returned them
    response,   \* response[r]: what the handler wrote to its ResponseWriter
    steps       \* steps[r]: the calls the handler of r has made, in order

vars == <<provider, pc, request, token, cancelled, result, response, steps>>

----------------------------------------------------------------------------
(* Bounds and input sets *)

\* Number of requests the server handles concurrently.
NumReq == 2

Reqs == 1 .. NumReq

\* HTTP status codes used by the handlers (net/http constants).
StatusOK == 200
StatusUnauthorized == 401
StatusForbidden == 403
StatusInternalServerError == 500

\* Route patterns (api.go:20-24).
publicURL == "/public"
protectedURL == "/protected"
protectedClaimURL == "/protected/{claim}/{value}"

\* oidc.PrefixBearer
PrefixBearer == "Bearer "

\* Timestamps time.Now().String() can yield.
Timestamps == {"2024-01-01 10:00:00", "2024-01-01 10:00:01"}

\* Issuers the server may have been started with (ISSUER, api.go:29).
Issuers == {"https://issuer.example"}

----------------------------------------------------------------------------
(* Values *)

\* A claim value is a dynamically typed JSON value: a tagged variant.
Str(s) == [type |-> "string", val |-> s]
Num(s) == [type |-> "number", val |-> s]
Nil == [type |-> "nil", val |-> ""]

\* Names of the claims the authority may return, in JSON key order.
ClaimOrder == <<"role", "username">>
ClaimNames == {ClaimOrder[i] : i \in 1 .. Len(ClaimOrder)}

EmptyClaims == [n \in {} |-> Nil]

\* All claims mappings over the names ns with values in vs.
ClaimMaps(ns, vs) == UNION {[d -> vs] : d \in SUBSET ns}

\* oidc.IntrospectionResponse: the active flag and the claims mapping.
IntrospectionResponse(active, claims) == [active |-> active, claims |-> claims]

\* The nil response rs.Introspect returns beside an error.
NilResp == IntrospectionResponse(FALSE, EmptyClaims)

\* (resp, err) of a call that has not returned.
NoResult == [returned |-> FALSE, kind |-> "", err |-> "", resp |-> NilResp]

\* (resp, nil): the authority's verdict, decoded.
Success(resp) == [returned |-> TRUE, kind |-> "", err |-> "", resp |-> resp]

\* (nil, err): kind is the failure kind, text is err.Error().
Failure(kind, text) == [returned |-> TRUE, kind |-> kind, err |-> text, resp |-> NilResp]

\* The failure of a call whose context was cancelled.
ContextCanceled == Failure("TransportError", "context canceled")

\* Nothing written to the ResponseWriter yet.
NoResponse == [status |-> 0, body |-> ""]

\* An inbound request.  auth holds the values of the authorization header,
\* <<>> when the request carries none; claim and value are the URL
\* parameters, "" on the routes that have none.
Request(route, auth, claim, value) ==
    [route |-> route, auth |-> auth, claim |-> claim, value |-> value]

NoRequest == Request("", <<>>, "", "")

----------------------------------------------------------------------------
(* Pure functions *)

\* strings.HasPrefix
HasPrefix(s, prefix) ==
    /\ Len(s) >= Len(prefix)
    /\ SubSeq(s, 1, Len(prefix)) = prefix

\* strings.TrimPrefix
TrimPrefix(s, prefix) ==
    IF HasPrefix(s, prefix) THEN SubSeq(s, Len(prefix) + 1, Len(s)) ELSE s

\* http.Header.Get: the first value of the header, "" when there is none.
HeaderGet(values) == IF values = <<>> THEN "" ELSE values[1]

\* chi.URLParam
URLParam(req, key) ==
    IF key = "claim" THEN req.claim ELSE IF key = "value" THEN req.value ELSE ""

\* http.Error(w, msg, code): the status and the message the handler gives
\* (net/http sends the message as one line of plain text).
HttpError(msg, code) == [status |-> code, body |-> msg]

\* w.Write(data) on a fresh ResponseWriter: status 200 and the data.
Write(data) == [status |-> StatusOK, body |-> data]

\* m[key] on a Go map: the zero value (a nil interface) when key is absent.
MapIndex(m, key) == IF key \in DOMAIN m THEN m[key] ELSE Nil

\* v.(string) in its two-result form.
AssertString(v) ==
    IF v.type = "string" THEN [value |-> v.val, ok |-> TRUE]
    ELSE [value |-> "", ok |-> FALSE]

\* The JSON text of one claim value.
MarshalValue(v) ==
    IF v.type = "string" THEN "\"" \o v.val \o "\""
    ELSE IF v.type = "number" THEN v.val
    ELSE "null"

\* The JSON members of the claims named in names[i..], each led by a comma.
RECURSIVE MarshalClaims(_, _, _)
MarshalClaims(claims, names, i) ==
    IF i > Len(names) THEN ""
    ELSE (IF names[i] \in DOMAIN claims
          THEN ",\"" \o names[i] \o "\":" \o MarshalValue(claims[names[i]])
          ELSE "")
         \o MarshalClaims(claims, names, i + 1)

\* json.Marshal(resp): the active flag and the claims as one JSON object,
\* keys sorted.  A response decoded from JSON always encodes: err is "".
Marshal(resp) ==
    [data |-> "{\"active\":" \o (IF resp.active THEN "true" ELSE "false")
                \o MarshalClaims(resp.claims, ClaimOrder, 1) \o "}",
     err |-> ""]

\* checkToken answering a missing header with 403.
checkToken_MissingIsForbidden(req) ==
    LET auth == HeaderGet(req.auth) IN
    IF auth = ""
    THEN [ok |-> FALSE, token |-> "",
          response |-> HttpError("auth header missing", StatusForbidden)]
    ELSE IF ~HasPrefix(auth, PrefixBearer)
    THEN [ok |-> FALSE, token |-> "",
          response |-> HttpError("invalid header", StatusUnauthorized)]
    ELSE [ok |-> TRUE, token |-> TrimPrefix(auth, PrefixBearer),
          response |-> NoResponse]

\* checkToken without the check of the scheme.
checkToken_NoSchemeCheck(req) ==
    LET auth == HeaderGet(req.auth) IN
    IF auth = ""
    THEN [ok |-> FALSE, token |-> "",
          response |-> HttpError("auth header missing", StatusUnauthorized)]
    ELSE [ok |-> TRUE, token |-> TrimPrefix(auth, PrefixBearer),
          response |-> NoResponse]

\* checkToken refusing an empty token.
checkToken_RefusesEmptyToken(req) ==
    LET auth == HeaderGet(req.auth) IN
    IF auth = ""
    THEN [ok |-> FALSE, token |-> "",
          response |-> HttpError("auth header missing", StatusUnauthorized)]
    ELSE IF ~HasPrefix(auth, PrefixBearer) \/ TrimPrefix(auth, PrefixBearer) = ""
    THEN [ok |-> FALSE, token |-> "",
          response |-> HttpError("invalid header", StatusUnauthorized)]
    ELSE [ok |-> TRUE, token |-> TrimPrefix(auth, PrefixBearer),
          response |-> NoResponse]

\* checkToken (api.go:93-104): (ok, token) and what it wrote on failure.
checkToken(req) ==
    LET auth == HeaderGet(req.auth) IN
    IF auth = ""
    THEN [ok |-> FALSE, token |-> "",
          response |-> HttpError("auth header missing", StatusUnauthorized)]
    ELSE IF ~HasPrefix(auth, PrefixBearer)
    THEN [ok |-> FALSE, token |-> "",
          response |-> HttpError("invalid header", StatusUnauthorized)]
    ELSE [ok |-> TRUE, token |-> TrimPrefix(auth, PrefixBearer),
          response |-> NoResponse]

\* err != nil
IsErr(res) == res.kind # ""

\* The protectedURL handler denying a result that carries no claims.
protectedAnswer_RequiresClaims(res) ==
    IF IsErr(res)
    THEN [response |-> HttpError(res.err, StatusForbidden),
          steps |-> <<"http.Error">>]
    ELSE IF DOMAIN res.resp.claims = {}
    THEN [response |-> HttpError("no claims", StatusForbidden),
          steps |-> <<"http.Error">>]
    ELSE [response |-> Write(Marshal(res.resp).data),
          steps |-> <<"json.Marshal", "Write">>]

\* The protectedURL handler answering a failed call with 500.
protectedAnswer_FailureIs500(res) ==
    IF IsErr(res)
    THEN [response |-> HttpError(res.err, StatusInternalServerError),
          steps |-> <<"http.Error">>]
    ELSE [response |-> Write(Marshal(res.resp).data),
          steps |-> <<"json.Marshal", "Write">>]

\* The protectedURL handler serializing the result without its claims.
protectedAnswer_DropsClaims(res) ==
    IF IsErr(res)
    THEN [response |-> HttpError(res.err, StatusForbidden),
          steps |-> <<"http.Error">>]
    ELSE [response |->
              Write(Marshal(IntrospectionResponse(res.resp.active, EmptyClaims)).data),
          steps |-> <<"json.Marshal", "Write">>]

\* The protectedURL handler after the introspection call (api.go:52-61):
\* what it writes and the calls it makes.
protectedAnswer(res) ==
    IF IsErr(res)
    THEN [response |-> HttpError(res.err, StatusForbidden),
          steps |-> <<"http.Error">>]
    ELSE LET m == Marshal(res.resp) IN
         IF m.err # ""
         THEN [response |-> HttpError(m.err, StatusInternalServerError),
               steps |-> <<"json.Marshal", "http.Error">>]
         ELSE [response |-> Write(m.data),
               steps |-> <<"json.Marshal", "Write">>]

\* The claim check without the comparison with the requested value.
claimCheck_NoCompare(resp, requestedClaim, requestedValue) ==
    LET a == AssertString(MapIndex(resp.claims, requestedClaim)) IN
    [value |-> a.value, deny |-> ~a.ok \/ a.value = ""]

\* The claim check without the check for the empty value.
claimCheck_NoEmpty(resp, requestedClaim, requestedValue) ==
    LET a == AssertString(MapIndex(resp.claims, requestedClaim)) IN
    [value |-> a.value, deny |-> ~a.ok \/ a.value # requestedValue]

\* The claim check of the protectedClaimURL handler (api.go:80-81): the
\* asserted value, and whether the handler denies.
claimCheck(resp, requestedClaim, requestedValue) ==
    LET a == AssertString(MapIndex(resp.claims, requestedClaim)) IN
    [value |-> a.value,
     deny |-> ~a.ok \/ a.value = "" \/ a.value # requestedValue]

\* The protectedClaimURL handler answering a failed call with 500.
protectedClaimAnswer_FailureIs500(res, req) ==
    IF IsErr(res)
    THEN [response |-> HttpError(res.err, StatusInternalServerError),
          steps |-> <<"http.Error">>]
    ELSE LET c == claimCheck(res.resp, URLParam(req, "claim"), URLParam(req, "value"))
         IN IF c.deny
            THEN [response |-> HttpError("claim does not match", StatusForbidden),
                  steps |-> <<"claims", "http.Error">>]
            ELSE [response |-> Write("authorized with value " \o c.value),
                  steps |-> <<"claims", "Write">>]

\* The protectedClaimURL handler after the introspection call
\* (api.go:73-85).
protectedClaimAnswer(res, req) ==
    IF IsErr(res)
    THEN [response |-> HttpError(res.err, StatusForbidden),
          steps |-> <<"http.Error">>]
    ELSE LET requestedClaim == URLParam(req, "claim")
             requestedValue == URLParam(req, "value")
             c == claimCheck(res.resp, requestedClaim, requestedValue)
         IN IF c.deny
            THEN [response |-> HttpError("claim does not match", StatusForbidden),
                  steps |-> <<"claims", "http.Error">>]
            ELSE [response |-> Write("authorized with value " \o c.value),
                  steps |-> <<"claims", "Write">>]

----------------------------------------------------------------------------
(* Inputs *)

\* Authorization headers: none, empty, other schemes, the bare scheme word,
\* and bearer headers with an empty, a plain and a prefixed token.
WideHeaders ==
    {<<>>, <<"">>, <<"Bearer">>, <<"bearer x">>, <<"Basic x">>,
     <<"Bearer ">>, <<"Bearer x">>, <<"Bearer Bearer x">>}

NarrowHeaders == {<<>>, <<"Basic x">>, <<"Bearer x">>}

\* Requests over the headers hs, claim names cs and values vs.
Requests(hs, cs, vs) ==
    {Request(rt, h, "", "") : rt \in {publicURL, protectedURL}, h \in hs}
    \cup {Request(protectedClaimURL, h, c, v) : h \in hs, c \in cs, v \in vs}

WideRequests == Requests(WideHeaders, {"username", "role"}, {"", "a", "A", "b"})

NarrowRequests == Requests(NarrowHeaders, {"username"}, {"a", "b"})

\* What a call to the authority can come back with: a failure of one of the
\* three kinds, or a verdict with one of the claims mappings ms.
Outcomes(failures, ms) ==
    failures \cup {Success(IntrospectionResponse(a, m)) : a \in BOOLEAN, m \in ms}

WideOutcomes ==
    Outcomes({Failure("TransportError", "dial tcp: connection refused"),
              Failure("AuthorityError", "http status not ok: 500 db down"),
              Failure("AuthorityError", "http status not ok: 500 key expired"),
              Failure("DecodeError", "unexpected end of JSON input")},
             ClaimMaps(ClaimNames, {Str(""), Str("a"), Num("1")}))

NarrowOutcomes ==
    Outcomes({Failure("TransportError", "dial tcp: connection refused"),
              Failure("AuthorityError", "http status not ok: 500 db down"),
              Failure("AuthorityError", "http status not ok: 500 key expired"),
              Failure("DecodeError", "unexpected end of JSON input")},
             ClaimMaps({"username"}, {Str("a")}))

----------------------------------------------------------------------------
(* Actions *)

TypeOK ==
    /\ provider \in [issuer : Issuers]
    /\ pc \in [Reqs -> {"idle", "introspecting", "done"}]
    /\ DOMAIN request = Reqs
    /\ DOMAIN token = Reqs
    /\ cancelled \in [Reqs -> BOOLEAN]
    /\ DOMAIN result = Reqs
    /\ \A r \in Reqs : response[r].status \in
           {0, StatusOK, StatusUnauthorized, StatusForbidden,
            StatusInternalServerError}
    /\ DOMAIN steps = Reqs

\* main up to ListenAndServe (api.go:26-36): the provider is built, nothing
\* has been received.
Init ==
    /\ provider \in [issuer : Issuers]
    /\ pc = [r \in Reqs |-> "idle"]
    /\ request = [r \in Reqs |-> NoRequest]
    /\ token = [r \in Reqs |-> ""]
    /\ cancelled = [r \in Reqs |-> FALSE]
    /\ result = [r \in Reqs |-> NoResult]
    /\ response = [r \in Reqs |-> NoResponse]
    /\ steps = [r \in Reqs |-> <<>>]

\* The publicURL handler behind checkToken.
Public_ChecksToken(r, req, now) ==
    LET c == checkToken(req) IN
    /\ pc[r] = "idle"
    /\ req.route = publicURL
    /\ request' = [request EXCEPT ![r] = req]
    /\ response' = [response EXCEPT ![r] =
           IF c.ok THEN Write("OK " \o now) ELSE c.response]
    /\ steps' = [steps EXCEPT ![r] =
           IF c.ok THEN <<"checkToken", "Write">> ELSE <<"checkToken", "http.Error">>]
    /\ pc' = [pc EXCEPT ![r] = "done"]
    /\ UNCHANGED <<provider, token, cancelled, result>>

\* The publicURL handler (api.go:40-42) on request req, at time now.
Public(r, req, now) ==
    /\ pc[r] = "idle"
    /\ req.route = publicURL
    /\ request' = [request EXCEPT ![r] = req]
    /\ response' = [response EXCEPT ![r] = Write("OK " \o now)]
    /\ steps' = [steps EXCEPT ![r] = <<"Write">>]
    /\ pc' = [pc EXCEPT ![r] = "done"]
    /\ UNCHANGED <<provider, token, cancelled, result>>

\* A protected handler that does not return after checkToken failed: it
\* goes on to the introspection call.
StartProtected_NoReturn(r, req) ==
    LET c == checkToken(req) IN
    /\ pc[r] = "idle"
    /\ request' = [request EXCEPT ![r] = req]
    /\ token' = [token EXCEPT ![r] = c.token]
    /\ response' = [response EXCEPT ![r] = c.response]
    /\ steps' = [steps EXCEPT ![r] =
           IF c.ok THEN <<"checkToken", "rs.Introspect">>
           ELSE <<"checkToken", "http.Error", "rs.Introspect">>]
    /\ pc' = [pc EXCEPT ![r] = "introspecting"]
    /\ UNCHANGED <<provider, cancelled, result>>

\* A protected handler from its start to the introspection call
\* (api.go:47-51, 68-72): checkToken, then either the return after its 401
\* or the call of rs.Introspect with the token.
StartProtected(r, req) ==
    LET c == checkToken(req) IN
    /\ pc[r] = "idle"
    /\ request' = [request EXCEPT ![r] = req]
    /\ IF ~c.ok
       THEN /\ response' = [response EXCEPT ![r] = c.response]
            /\ steps' = [steps EXCEPT ![r] = <<"checkToken", "http.Error">>]
            /\ pc' = [pc EXCEPT ![r] = "done"]
            /\ UNCHANGED token
       ELSE /\ token' = [token EXCEPT ![r] = c.token]
            /\ steps' = [steps EXCEPT ![r] = <<"checkToken", "rs.Introspect">>]
            /\ pc' = [pc EXCEPT ![r] = "introspecting"]
            /\ UNCHANGED response
    /\ UNCHANGED <<provider, cancelled, result>>

\* The protectedURL handler up to the introspection call (api.go:46-51).
Protected(r, req) ==
    /\ req.route = protectedURL
    /\ StartProtected(r, req)

\* The protectedClaimURL handler up to the introspection call
\* (api.go:67-72).
ProtectedClaim(r, req) ==
    /\ req.route = protectedClaimURL
    /\ StartProtected(r, req)

\* One context shared by the handlers: cancelling it cancels every call in
\* flight.
Cancel_SharedContext(r) ==
    /\ pc[r] = "introspecting"
    /\ ~cancelled[r]
    /\ cancelled' = [o \in Reqs |-> cancelled[o] \/ pc[o] = "introspecting"]
    /\ UNCHANGED <<provider, pc, request, token, result, response, steps>>

\* The context of request r is cancelled while its call is in flight.
Cancel(r) ==
    /\ pc[r] = "introspecting"
    /\ ~cancelled[r]
    /\ cancelled' = [cancelled EXCEPT ![r] = TRUE]
    /\ UNCHANGED <<provider, pc, request, token, result, response, steps>>

\* rs.Introspect returns res to the handler of r: one of the authority's
\* outcomes, or, once the context is cancelled, the context's error.
Returns(r, res, outcomes) ==
    /\ pc[r] = "introspecting"
    /\ res \in outcomes \cup (IF cancelled[r] THEN {ContextCanceled} ELSE {})
    /\ result' = [result EXCEPT ![r] = res]

\* The protectedURL handler repeating a failed call once.
ProtectedReturn_RetriesOnce(r, res, outcomes) ==
    LET a == protectedAnswer(res)
        retry == res.kind # "" /\ Len(steps[r]) = 2
    IN
    /\ request[r].route = protectedURL
    /\ Returns(r, res, outcomes)
    /\ response' = [response EXCEPT ![r] = IF retry THEN @ ELSE a.response]
    /\ steps' = [steps EXCEPT ![r] =
           IF retry THEN @ \o <<"rs.Introspect">> ELSE @ \o a.steps]
    /\ pc' = [pc EXCEPT ![r] = IF retry THEN "introspecting" ELSE "done"]
    /\ UNCHANGED <<provider, request, token, cancelled>>

\* The protectedURL handler refusing a token another request presented
\* before: state kept across requests.
ProtectedReturn_RefusesSeenToken(r, res, outcomes) ==
    LET seen == \E o \in Reqs \ {r} : /\ pc[o] = "done"
                                      /\ result[o].returned
                                      /\ token[o] = token[r]
        a == IF seen
             THEN [response |-> HttpError("token already used", StatusForbidden),
                   steps |-> <<"http.Error">>]
             ELSE protectedAnswer(res)
    IN
    /\ request[r].route = protectedURL
    /\ Returns(r, res, outcomes)
    /\ response' = [response EXCEPT ![r] = a.response]
    /\ steps' = [steps EXCEPT ![r] = @ \o a.steps]
    /\ pc' = [pc EXCEPT ![r] = "done"]
    /\ UNCHANGED <<provider, request, token, cancelled>>

\* The protectedURL handler from the return of rs.Introspect to its end
\* (api.go:51-62).
ProtectedReturn(r, res, outcomes) ==
    LET a == protectedAnswer(res) IN
    /\ request[r].route = protectedURL
    /\ Returns(r, res, outcomes)
    /\ response' = [response EXCEPT ![r] = a.response]
    /\ steps' = [steps EXCEPT ![r] = @ \o a.steps]
    /\ pc' = [pc EXCEPT ![r] = "done"]
    /\ UNCHANGED <<provider, request, token, cancelled>>

\* The protectedClaimURL handler repeating a failed call until it succeeds.
ProtectedClaimReturn_RetriesForever(r, res, outcomes) ==
    LET a == protectedClaimAnswer(res, request[r])
        retry == res.kind # ""
    IN
    /\ request[r].route = protectedClaimURL
    /\ Returns(r, res, outcomes)
    /\ response' = [response EXCEPT ![r] = IF retry THEN @ ELSE a.response]
    /\ steps' = [steps EXCEPT ![r] = IF retry THEN @ ELSE @ \o a.steps]
    /\ pc' = [pc EXCEPT ![r] = IF retry THEN "introspecting" ELSE "done"]
    /\ UNCHANGED <<provider, request, token, cancelled>>

\* The protectedClaimURL handler abandoning the request, with nothing
\* written, when its context is cancelled.
ProtectedClaimReturn_Abandons(r, res, outcomes) ==
    LET a == protectedClaimAnswer(res, request[r]) IN
    /\ request[r].route = protectedClaimURL
    /\ Returns(r, res, outcomes)
    /\ response' = [response EXCEPT ![r] =
           IF cancelled[r] THEN NoResponse ELSE a.response]
    /\ steps' = [steps EXCEPT ![r] = IF cancelled[r] THEN @ ELSE @ \o a.steps]
    /\ pc' = [pc EXCEPT ![r] = "done"]
    /\ UNCHANGED <<provider, request, token, cancelled>>

\* The protectedClaimURL handler from the return of rs.Introspect to its
\* end (api.go:72-86).
ProtectedClaimReturn(r, res, outcomes) ==
    LET a == protectedClaimAnswer(res, request[r]) IN
    /\ request[r].route = protectedClaimURL
    /\ Returns(r, res, outcomes)
    /\ response' = [response EXCEPT ![r] = a.response]
    /\ steps' = [steps EXCEPT ![r] = @ \o a.steps]
    /\ pc' = [pc EXCEPT ![r] = "done"]
    /\ UNCHANGED <<provider, request, token, cancelled>>

\* The server handling NumReq requests concurrently.
Next ==
    \E r \in Reqs :
        \/ \E req \in NarrowRequests, now \in Timestamps : Public(r, req, now)
        \/ \E req \in NarrowRequests : Protected(r, req)
        \/ \E req \in NarrowRequests : ProtectedClaim(r, req)
        \/ Cancel(r)
        \/ \E res \in NarrowOutcomes \cup {ContextCanceled} :
               ProtectedReturn(r, res, NarrowOutcomes)
        \/ \E res \in NarrowOutcomes \cup {ContextCanceled} :
               ProtectedClaimReturn(r, res, NarrowOutcomes)

Spec == Init /\ [][Next]_vars

\* The rest of the protected handler of r runs once its call returned.
HandlerResumes(r) ==
    \/ \E res \in NarrowOutcomes \cup {ContextCanceled} :
           ProtectedReturn(r, res, NarrowOutcomes)
    \/ \E res \in NarrowOutcomes \cup {ContextCanceled} :
           ProtectedClaimReturn(r, res, NarrowOutcomes)

\* The server when every introspection call eventually returns, with a
\* verdict, a failure or the error of its cancelled context, and the
\* goroutine waiting for it is then scheduled.
FairSpec == Spec /\ \A r \in Reqs : WF_vars(HandlerResumes(r))

\* The server handling one request, over the wide inputs.
NextOne ==
    \/ \E req \in WideRequests, now \in Timestamps : Public(1, req, now)
    \/ \E req \in WideRequests : Protected(1, req)
    \/ \E req \in WideRequests : ProtectedClaim(1, req)
    \/ Cancel(1)
    \/ \E res \in WideOutcomes \cup {ContextCanceled} :
           ProtectedReturn(1, res, WideOutcomes)
    \/ \E res \in WideOutcomes \cup {ContextCanceled} :
           ProtectedClaimReturn(1, res, WideOutcomes)

SpecOne == Init /\ [][NextOne]_vars

----------------------------------------------------------------------------
(* Vocabulary of the properties *)

Done(r) == pc[r] = "done"

OnProtectedRoute(r) == request[r].route \in {protectedURL, protectedClaimURL}

\* The authorization header of r as the handler reads it.
AuthOf(r) == IF request[r].auth = <<>> THEN "" ELSE request[r].auth[1]

\* The header is "Bearer " followed by some text: a well-formed
\* "Bearer <token>".
WellFormed(r) ==
    \E n \in 0 .. Len(AuthOf(r)) :
        AuthOf(r) = "Bearer " \o SubSeq(AuthOf(r), n + 1, Len(AuthOf(r)))

\* The introspection call of r returned a verdict, not a failure.
Introspected(r) == result[r].returned /\ result[r].kind = ""

\* The introspection call of r failed.
IntrospectionFailed(r) == result[r].returned /\ result[r].kind # ""

\* The number of entries of the sequence q that equal x.
Count(q, x) == Cardinality({i \in 1 .. Len(q) : q[i] = x})

\* The claims of r's verdict hold the requested claim as a non-empty string
\* equal to the requested value.
ClaimMatches(r) ==
    LET m == result[r].resp.claims
        c == request[r].claim
    IN /\ c \in DOMAIN m
       /\ m[c].type = "string"
       /\ m[c].val # ""
       /\ m[c].val = request[r].value

----------------------------------------------------------------------------
(* Properties *)

\* C1: a protected request with a well-formed Bearer header whose
\* introspection returned successfully with active = false is answered 403,
\* never 200, whatever the claims.  The handlers never read resp.Active:
\* this statement is violated.
C1_InactiveIsForbidden ==
    \A r \in Reqs :
        (Done(r) /\ OnProtectedRoute(r) /\ WellFormed(r) /\ Introspected(r)
         /\ ~result[r].resp.active)
        => response[r].status = StatusForbidden

\* C2: a protected request whose authorization header is absent or empty is
\* answered 401, whatever its path parameters, and the authority is not
\* asked.
C2_MissingHeaderUnauthorized ==
    \A r \in Reqs :
        (Done(r) /\ OnProtectedRoute(r) /\ request[r].auth \in {<<>>, <<"">>})
        => /\ response[r].status = StatusUnauthorized
           /\ ~result[r].returned

C2_Witness ==
    /\ \E r \in Reqs :
        /\ Done(r)
        /\ request[r].route = protectedClaimURL
        /\ request[r].auth = <<>>
        /\ request[r].claim = "username"
        /\ response[r].status = StatusUnauthorized

\* C3: a protected request whose non-empty authorization header does not
\* start with the exact prefix "Bearer " is answered 401.
C3_BadSchemeUnauthorized ==
    \A r \in Reqs :
        (Done(r) /\ OnProtectedRoute(r) /\ AuthOf(r) # "" /\ ~WellFormed(r))
        => response[r].status = StatusUnauthorized

C3_Witness ==
    \E r \in Reqs :
        /\ Done(r)
        /\ request[r].route = protectedURL
        /\ request[r].auth \in {<<"bearer x">>, <<"Basic x">>, <<"Bearer">>}
        /\ response[r].status = StatusUnauthorized

\* C4: when the introspection call of a protected request with a
\* well-formed header fails, whatever the kind of failure, the answer is
\* 403, the call was made once and no claim was matched.
C4_IntrospectionFailureForbidden ==
    \A r \in Reqs :
        (Done(r) /\ OnProtectedRoute(r) /\ WellFormed(r)
         /\ IntrospectionFailed(r))
        => /\ response[r].status = StatusForbidden
           /\ Count(steps[r], "rs.Introspect") = 1
           /\ Count(steps[r], "claims") = 0

C4_Witness ==
    \E r \in Reqs :
        /\ Done(r)
        /\ request[r].route = protectedClaimURL
        /\ result[r].returned
        /\ result[r].kind = "DecodeError"
        /\ response[r].status = StatusForbidden

\* C5: on the claim route, after a well-formed header and a successful
\* introspection of an active token, the answer is 200 exactly when the
\* claims hold the requested claim as a non-empty string equal to the
\* requested value, and otherwise 403 with body "claim does not match".
C5_ClaimDecision ==
    \A r \in Reqs :
        (Done(r) /\ request[r].route = protectedClaimURL /\ WellFormed(r)
         /\ Introspected(r) /\ result[r].resp.active)
        => /\ ClaimMatches(r) => response[r].status = StatusOK
           /\ ~ClaimMatches(r) =>
                  /\ response[r].status = StatusForbidden
                  /\ response[r].body = "claim does not match"

\* The claim is held with another value than the one requested.
C5_Witness ==
    \E r \in Reqs :
        /\ Done(r)
        /\ request[r].route = protectedClaimURL
        /\ Introspected(r)
        /\ result[r].resp.active
        /\ request[r].claim = "username"
        /\ request[r].value = "A"
        /\ "username" \in DOMAIN result[r].resp.claims
        /\ result[r].resp.claims["username"] = Str("a")
        /\ response[r].status = StatusForbidden

\* C6: on the claim route, when the named claim is present with the empty
\* string as its value, the request is denied with 403, also when the
\* requested value is the empty string.
C6_EmptyValueDenied ==
    \A r \in Reqs :
        (Done(r) /\ request[r].route = protectedClaimURL /\ Introspected(r)
         /\ request[r].claim \in DOMAIN result[r].resp.claims
         /\ result[r].resp.claims[request[r].claim] = Str(""))
        => response[r].status = StatusForbidden

C6_Witness ==
    \E r \in Reqs :
        /\ Done(r)
        /\ request[r].route = protectedClaimURL
        /\ Introspected(r)
        /\ result[r].resp.active
        /\ request[r].value = ""
        /\ request[r].claim \in DOMAIN result[r].resp.claims
        /\ result[r].resp.claims[request[r].claim] = Str("")
        /\ response[r].status = StatusForbidden

\* C7: an allowed request on /protected is answered 200 with the
\* serialization of the introspection result as the authority returned it
\* (no other result has that serialization); on the claim route it is
\* answered 200 with "authorized with value " and the matched value, which
\* is the value requested in the path.
C7_AllowedPayload ==
    \A r \in Reqs :
        (Done(r) /\ OnProtectedRoute(r) /\ response[r].status = StatusOK)
        => /\ Introspected(r)
           /\ request[r].route = protectedURL =>
                  /\ response[r].body = Marshal(result[r].resp).data
                  /\ \A o \in WideOutcomes :
                         (o.kind = "" /\ Marshal(o.resp).data = response[r].body)
                         => o.resp = result[r].resp
           /\ request[r].route = protectedClaimURL =>
                  /\ response[r].body = "authorized with value " \o request[r].value
                  /\ request[r].claim \in DOMAIN result[r].resp.claims
                  /\ result[r].resp.claims[request[r].claim] = Str(request[r].value)

\* An allowed /protected request whose result carries two claims.
C7_Witness ==
    \E r \in Reqs :
        /\ Done(r)
        /\ request[r].route = protectedURL
        /\ Introspected(r)
        /\ result[r].resp.active
        /\ DOMAIN result[r].resp.claims = {"username", "role"}
        /\ response[r].status = StatusOK
        /\ response[r].body = "{\"active\":true,\"role\":1,\"username\":\"a\"}"

\* C8: a request to /public is answered 200 whatever its headers, and its
\* handling extracts no token and makes no introspection call.
C8_PublicAlwaysOK ==
    \A r \in Reqs :
        (Done(r) /\ request[r].route = publicURL)
        => /\ response[r].status = StatusOK
           /\ Count(steps[r], "checkToken") = 0
           /\ Count(steps[r], "rs.Introspect") = 0
           /\ ~result[r].returned
           /\ token[r] = ""

C8_Witness ==
    \E r \in Reqs :
        /\ Done(r)
        /\ request[r].route = publicURL
        /\ request[r].auth = <<"Basic x">>
        /\ response[r].status = StatusOK

C10_Idempotent ==
    \A r1, r2 \in Reqs :
        (Done(r1) /\ Done(r2) /\ request[r1] = request[r2]
         /\ result[r1] = result[r2])
        => /\ response[r1].status = response[r2].status
           /\ OnProtectedRoute(r1) => response[r1].body = response[r2].body

\* Two allowed requests on the claim route, alike in header, path and
\* answer.
C10_Witness ==
    \E r1, r2 \in Reqs :
        /\ r1 # r2
        /\ Done(r1) /\ Done(r2)
        /\ request[r1] = request[r2]
        /\ request[r1].route = protectedClaimURL
        /\ result[r1] = result[r2]
        /\ Introspected(r1)
        /\ response[r1].status = StatusOK
        /\ response[r2].status = StatusOK

C12_FailureBodyIsGeneric ==
    \A r1, r2 \in Reqs :
        (Done(r1) /\ Done(r2) /\ request[r1] = request[r2]
         /\ IntrospectionFailed(r1) /\ IntrospectionFailed(r2)
         /\ result[r1].kind = result[r2].kind)
        => response[r1].body = response[r2].body

\* C13: a request makes at most one introspection call: exactly one once
\* a protected request's header passed extraction, none when the request
\* is answered 401 or goes to /public, and a failed call is not repeated.
C13_OneCall ==
    \A r \in Reqs :
        /\ Count(steps[r], "rs.Introspect") <= 1
        /\ (pc[r] # "idle" /\ OnProtectedRoute(r) /\ WellFormed(r))
           => Count(steps[r], "rs.Introspect") = 1
        /\ (Done(r) /\ (response[r].status = StatusUnauthorized
                        \/ request[r].route = publicURL))
           => Count(steps[r], "rs.Introspect") = 0
        /\ IntrospectionFailed(r) => Count(steps[r], "rs.Introspect") = 1

C13_Witness ==
    \E r \in Reqs :
        /\ Done(r)
        /\ request[r].route = protectedURL
        /\ IntrospectionFailed(r)
        /\ result[r].kind = "TransportError"
        /\ Count(steps[r], "rs.Introspect") = 1

\* The place of a request in its pipeline.
Rank(p) == IF p = "idle" THEN 0 ELSE IF p = "introspecting" THEN 1 ELSE 2

\* The calls of request r so far are those of its place in the pipeline:
\* extraction first, the introspection call only after it succeeded, the
\* claim check only after a verdict, one decision at the end.
InOrder(r) ==
    LET ct == <<"checkToken">>
        in == <<"checkToken", "rs.Introspect">>
    IN
    /\ pc[r] = "idle" => steps[r] = <<>>
    /\ pc[r] = "introspecting" => steps[r] = in /\ WellFormed(r)
    /\ (Done(r) /\ request[r].route = publicURL) => steps[r] = <<"Write">>
    /\ (Done(r) /\ OnProtectedRoute(r) /\ ~WellFormed(r))
       => /\ steps[r] = ct \o <<"http.Error">>
          /\ response[r].status = StatusUnauthorized
          /\ ~result[r].returned
    /\ (Done(r) /\ OnProtectedRoute(r) /\ WellFormed(r))
       => /\ result[r].returned
          /\ IntrospectionFailed(r) => steps[r] = in \o <<"http.Error">>
          /\ (Introspected(r) /\ request[r].route = protectedURL)
             => steps[r] = in \o <<"json.Marshal", "Write">>
          /\ (Introspected(r) /\ request[r].route = protectedClaimURL)
             => steps[r] \in {in \o <<"claims", "Write">>,
                              in \o <<"claims", "http.Error">>}
    /\ Count(steps[r], "http.Error") + Count(steps[r], "Write")
           = (IF Done(r) THEN 1 ELSE 0)

\* A step never moves request r back, and leaves a decided request as it is.
Forward(r) ==
    /\ Rank(pc'[r]) >= Rank(pc[r])
    /\ Done(r) => /\ response'[r] = response[r]
                  /\ steps'[r] = steps[r]
                  /\ result'[r] = result[r]

\* C14: the pipeline of a request only moves forward through extraction,
\* introspection, claim check and decision; a failure at a step leads to
\* the decision with no later step; a request is decided once.  A failed
\* extraction is answered 401 with no introspection call.
C14_PipelineOrder ==
    /\ [](\A r \in Reqs : InOrder(r))
    /\ [][\A r \in Reqs : Forward(r)]_vars

\* A claim-route request denied by the extractor, and one denied by the
\* claim check.
C14_Witness ==
    \E r1, r2 \in Reqs :
        /\ Done(r1) /\ Done(r2)
        /\ request[r1].route = protectedClaimURL
        /\ steps[r1] = <<"checkToken", "http.Error">>
        /\ request[r2].route = protectedClaimURL
        /\ steps[r2] = <<"checkToken", "rs.Introspect", "claims", "http.Error">>

\* C15: on a header that starts with "Bearer " extraction succeeds and
\* yields the rest of the header after that prefix, removed once; an empty
\* rest gives the empty token, no 401, and the introspection call is made
\* with it.
C15_ExtractsRemainder ==
    \A r \in Reqs :
        (pc[r] # "idle" /\ OnProtectedRoute(r) /\ WellFormed(r))
        => /\ "Bearer " \o token[r] = AuthOf(r)
           /\ Count(steps[r], "rs.Introspect") = 1
           /\ response[r].status # StatusUnauthorized
           /\ AuthOf(r) = "Bearer Bearer x" => token[r] = "Bearer x"
           /\ AuthOf(r) = "Bearer " => token[r] = ""

\* The introspection call of a request whose token is empty is in flight.
C15_Witness ==
    \E r \in Reqs :
        /\ pc[r] = "introspecting"
        /\ request[r].auth = <<"Bearer ">>
        /\ token[r] = ""
        /\ steps[r] = <<"checkToken", "rs.Introspect">>

\* C16: when every introspection call eventually returns, a request whose
\* call is in flight is eventually decided; the steps before the call and
\* after it do not wait.
C16_EventuallyDecided ==
    \A r \in Reqs : (pc[r] = "introspecting") ~> Done(r)

\* Every request is decided, one of them after its context was cancelled.
C16_Witness ==
    /\ \A r \in Reqs : Done(r) /\ result[r].returned
    /\ \E r \in Reqs : cancelled[r]
    /\ \E r \in Reqs : ~cancelled[r]

\* What the handlers answer to request req, alone, when the authority
\* answers res to its call.
Alone(req, res) ==
    LET c == checkToken(req) IN
    IF ~c.ok THEN c.response
    ELSE IF req.route = protectedURL THEN protectedAnswer(res).response
    ELSE protectedClaimAnswer(res, req).response

\* Everything the server holds for request r.
Slot(r) ==
    <<pc[r], request[r], token[r], cancelled[r], result[r], response[r], steps[r]>>

\* C17: under every interleaving the answer of a request is the one it
\* gets when handled alone; a step of one request's pipeline changes
\* nothing another request holds; the provider is not modified after
\* startup.
C17_Isolation ==
    /\ [](\A r \in Reqs :
              /\ (Done(r) /\ OnProtectedRoute(r))
                 => response[r] = Alone(request[r], result[r])
              /\ (Done(r) /\ request[r].route = publicURL)
                 => response[r].status = StatusOK)
    /\ [][/\ provider' = provider
          /\ \E r \in Reqs : \A o \in Reqs \ {r} : Slot(o)' = Slot(o)]_vars

\* A request is allowed while another one with the same token is in
\* flight, its context cancelled.
C17_Witness ==
    \E r1, r2 \in Reqs :
        /\ r1 # r2
        /\ Done(r1)
        /\ response[r1].status = StatusOK
        /\ request[r1].route = protectedClaimURL
        /\ pc[r2] = "introspecting"
        /\ cancelled[r2]
        /\ token[r2] = token[r1]

\* C18: on /protected, for a well-formed header and a successful
\* introspection, the status is the same for every claims mapping, the
\* empty one included.
C18_ClaimsDoNotDecide ==
    \A r1, r2 \in Reqs :
        (Done(r1) /\ Done(r2)
         /\ request[r1].route = protectedURL /\ request[r2].route = protectedURL
         /\ WellFormed(r1) /\ WellFormed(r2)
         /\ Introspected(r1) /\ Introspected(r2)
         /\ result[r1].resp.active = result[r2].resp.active)
        => response[r1].status = response[r2].status

\* Two /protected requests, one whose result has no claims and one whose
\* result has a claim, both allowed.
C18_Witness ==
    \E r1, r2 \in Reqs :
        /\ Done(r1) /\ Done(r2)
        /\ request[r1].route = protectedURL /\ request[r2].route = protectedURL
        /\ Introspected(r1) /\ Introspected(r2)
        /\ result[r1].resp.active /\ result[r2].resp.active
        /\ DOMAIN result[r1].resp.claims = {}
        /\ DOMAIN result[r2].resp.claims = {"username"}
        /\ response[r1].status = StatusOK
        /\ response[r2].status = StatusOK

====
